---- MODULE Spec2Model ----
(***************************************************************************)
(* Arc Booster: the tweak application and rollback engine of               *)
(* arc_booster.py.  The model covers the state store                       *)
(* (load_applied_tweaks / save_applied_tweaks), the command executor       *)
(* (run_powershell), the Tk main thread (_on_apply, _on_restore,           *)
(* _set_busy) and the worker threads (_apply_worker, _restore_worker)      *)
(* that serialise on self._lock.                                           *)
(***************************************************************************)
EXTENDS Integers, Sequences, FiniteSets, TLC

(* Number of worker threads the main thread may start in one process. *)
MaxThreads == 2

Threads == 1..MaxThreads

(***************************************************************************)
(* Tweak registry.  The 13 entries of TWEAKS fall into three classes:      *)
(* admin and reversible, non-admin and reversible, non-admin and one-way   *)
(* (restore_cmd is None).  One entry of each class is kept, in             *)
(* declaration order.                                                      *)
(***************************************************************************)
TWEAKS ==
    << [id |-> "power_plan_high",    admin |-> TRUE,  restore_cmd |-> "cmd"],
       [id |-> "game_mode_enable",   admin |-> FALSE, restore_cmd |-> "cmd"],
       [id |-> "clear_shader_cache", admin |-> FALSE, restore_cmd |-> "None"] >>

RegistryIds == { TWEAKS[k].id : k \in DOMAIN TWEAKS }

(* An id written by an older version, no longer in the registry.  It is a  *)
(* one-character string so that it is also what set("z") yields.           *)
StaleId == "z"

AllIds == RegistryIds \cup {StaleId}

(***************************************************************************)
(* Persisted file.  shape tells what a reader finds at BACKUP_FILE:        *)
(*   missing          no file                                              *)
(*   unreadable       open() raises OSError                                *)
(*   undecodable      bytes that are not UTF-8                             *)
(*   not_json         text that is not JSON (also an empty or cut file)    *)
(*   json_non_object  valid JSON whose top level is an array               *)
(*   applied_null     {"applied": null}                                    *)
(*   applied_string   {"applied": "z"}                                     *)
(*   record           {"applied": [...], "last_modified": ...}             *)
(* applied holds the array of a record and the characters of the string,   *)
(* as a list.                                                              *)
(***************************************************************************)
Range(seq) == { seq[k] : k \in DOMAIN seq }

(* The ids in the order Python compares strings. *)
IdOrder == << "clear_shader_cache", "game_mode_enable", "power_plan_high", "z" >>

(* Mutant of sorted: the ids are written in registry order, which leaves   *)
(* out an id the registry does not have.                                   *)
sorted_Registry(ids) == SelectSeq(IdOrder, LAMBDA x : x \in ids \cap RegistryIds)

(* sorted(applied) *)
sorted(ids) == SelectSeq(IdOrder, LAMBDA x : x \in ids)

MalformedShapes ==
    { "unreadable", "undecodable", "not_json", "json_non_object",
      "applied_null", "applied_string" }

FileOf(shape, list) == [shape |-> shape, applied |-> list]

(* The records a process may find when it starts: none applied, only a     *)
(* stale id, a reversible and a one-way tweak, and everything.             *)
StartRecords ==
    { {}, {StaleId}, {"game_mode_enable", "clear_shader_cache"}, AllIds }

FileContents ==
    { FileOf("missing", << >>) }
      \cup { FileOf(s, << >>) : s \in MalformedShapes \ {"applied_string"} }
      \cup { FileOf("applied_string", << StaleId >>) }
      \cup { FileOf("record", sorted(S)) : S \in StartRecords }

(* json.load(fh): the decoded document, or the exception it raises. *)
json_load(f) ==
    CASE f.shape = "undecodable"     -> [raised |-> "UnicodeDecodeError"]
      [] f.shape = "not_json"        -> [raised |-> "JSONDecodeError"]
      [] f.shape = "json_non_object" -> [raised |-> "None", type |-> "list"]
      [] f.shape = "applied_null"    ->
             [raised |-> "None", type |-> "dict", applied |-> "null", items |-> << >>]
      [] OTHER                       ->
             [raised |-> "None", type |-> "dict", applied |-> "iterable",
              items |-> f.applied]

(* set(data.get("applied", [])) *)
set_of_applied(data) ==
    IF data.type # "dict" THEN [raised |-> "AttributeError", value |-> {}]
    ELSE IF data.applied = "null" THEN [raised |-> "TypeError", value |-> {}]
    ELSE [raised |-> "None", value |-> Range(data.items)]

(* The exceptions the except clause of load_applied_tweaks catches. *)
LoadCaught == { "JSONDecodeError", "OSError" }

load_applied_tweaks(f) ==
    IF f.shape = "missing" THEN [raised |-> "None", value |-> {}]
    ELSE IF f.shape = "unreadable" THEN
        (IF "OSError" \in LoadCaught THEN [raised |-> "None", value |-> {}]
         ELSE [raised |-> "OSError", value |-> {}])
    ELSE LET data == json_load(f) IN
        IF data.raised # "None" THEN
            (IF data.raised \in LoadCaught THEN [raised |-> "None", value |-> {}]
             ELSE [raised |-> data.raised, value |-> {}])
        ELSE set_of_applied(data)

(***************************************************************************)
(* save_applied_tweaks(applied) under the three things the file system can *)
(* do: the write goes through; mkdir or open raises OSError and the file   *)
(* is left as it was; open("w") has truncated the file and the write or    *)
(* the flush raises OSError, leaving a cut file.  The function returns     *)
(* None in all three.                                                      *)
(***************************************************************************)
WriteOutcomes == { "written", "open_OSError", "write_OSError" }

(* Mutant of save_file: the write leaves the file as it was. *)
save_file_Noop(f, applied, os) == f

save_file(f, applied, os) ==
    CASE os = "written"       -> FileOf("record", sorted(applied))
      [] os = "open_OSError"  -> f
      [] os = "write_OSError" -> FileOf("not_json", << >>)

save_return(os) == "None"

(***************************************************************************)
(* run_powershell(command): what subprocess.run did, and the success flag  *)
(* the function returns for it.                                            *)
(***************************************************************************)
ProcessOutcomes ==
    { "exit_0", "exit_nonzero", "FileNotFoundError", "TimeoutExpired", "OSError" }

run_powershell(proc) == proc = "exit_0"


(***************************************************************************)
(* State.                                                                  *)
(***************************************************************************)
VARIABLES
    app,          \* "init" before ArcBoosterApp(), then "running" or "crashed"
    file,         \* content of BACKUP_FILE
    write_ok,     \* no write of save_applied_tweaks yet, or the last one succeeded
    boot,         \* what load_applied_tweaks gave to __init__
    _admin,       \* self._admin
    _applied,     \* self._applied
    _lock,        \* self._lock: 0 when free, else the thread holding it
    _busy,        \* self._busy
    buttons,      \* state of _apply_btn and _restore_btn
    afterQ,       \* pending self.after(0, self._set_busy, b) callbacks
    mainpc,       \* where the Tk main thread is inside _on_restore
    restorable,   \* local of _on_restore
    irreversible, \* local of _on_restore
    seen,         \* the value of self._applied each comprehension read
    thr           \* worker threads: position and locals

vars == << app, file, write_ok, boot, _admin, _applied, _lock, _busy, buttons, afterQ,
           mainpc, restorable, irreversible, seen, thr >>

(* A thread that has not been created, and one that has returned. *)
NoThread(pc) ==
    [ pc |-> pc, target |-> "none", args |-> << >>, i |-> 1,
      newly_applied |-> << >>, skipped_admin |-> << >>, restored |-> << >>,
      j |-> 1, outcomes |-> << >>, calls |-> << >>, pre |-> {},
      saves |-> 0, os |-> "none", ret |-> "none" ]

Init ==
    /\ app = "init"
    /\ file \in FileContents
    /\ write_ok = TRUE
    /\ boot = [raised |-> "None", value |-> {}]
    /\ _admin = FALSE
    /\ _applied = {}
    /\ _lock = 0
    /\ _busy = FALSE
    /\ buttons = "normal"
    /\ afterQ = << >>
    /\ mainpc = "idle"
    /\ restorable = << >>
    /\ irreversible = << >>
    /\ seen = << >>
    /\ thr = [w \in Threads |-> NoThread("unstarted")]

(***************************************************************************)
(* ArcBoosterApp.__init__: is_admin() and load_applied_tweaks().  An       *)
(* exception of load_applied_tweaks leaves the constructor.                *)
(***************************************************************************)
Start ==
    /\ app = "init"
    /\ \E adm \in BOOLEAN :
         LET r == load_applied_tweaks(file) IN
         /\ _admin' = adm
         /\ boot' = r
         /\ IF r.raised = "None"
            THEN app' = "running" /\ _applied' = r.value
            ELSE app' = "crashed" /\ _applied' = _applied
    /\ UNCHANGED << file, write_ok, _lock, _busy, buttons, afterQ, mainpc, restorable,
                    irreversible, seen, thr >>

(***************************************************************************)
(* Main thread.                                                            *)
(***************************************************************************)
HasFreeThread == \E w \in Threads : thr[w].pc = "unstarted"

NextThread ==
    CHOOSE w \in Threads :
        /\ thr[w].pc = "unstarted"
        /\ \A v \in Threads : v < w => thr[v].pc # "unstarted"

(* threading.Thread(target=..., args=(args,), daemon=True).start() *)
StartThread(target, args) ==
    thr' = [thr EXCEPT ![NextThread] =
               [NoThread("waiting") EXCEPT !.target = target, !.args = args]]

(* _set_busy(busy) *)
_set_busy(busy) ==
    /\ _busy' = busy
    /\ buttons' = IF busy THEN "disabled" ELSE "normal"

(* A callback queued with after(0, ...) runs when the main loop is idle or *)
(* inside the modal askyesno dialog.                                       *)
RunAfter ==
    /\ app = "running"
    /\ mainpc \in {"idle", "askyesno"}
    /\ afterQ # << >>
    /\ _set_busy(Head(afterQ))
    /\ afterQ' = Tail(afterQ)
    /\ UNCHANGED << app, file, write_ok, boot, _admin, _applied, _lock, mainpc,
                    restorable, irreversible, seen, thr >>

(* _on_apply: checked is the set of ticked check boxes.  With nothing      *)
(* ticked it shows a message and returns.                                  *)
Selected(checked) == SelectSeq(TWEAKS, LAMBDA t : t.id \in checked)

_on_apply ==
    /\ app = "running"
    /\ mainpc = "idle"
    /\ buttons = "normal"
    /\ HasFreeThread
    /\ \E checked \in SUBSET RegistryIds :
         /\ Selected(checked) # << >>
         /\ StartThread("_apply_worker", Selected(checked))
    /\ UNCHANGED << app, file, write_ok, boot, _admin, _applied, _lock, _busy, buttons,
                    afterQ, mainpc, restorable, irreversible, seen >>

(* Mutant of PlanRestorable: the restore_cmd test is missing. *)
PlanRestorable_All(applied) ==
    SelectSeq(TWEAKS, LAMBDA t : t.id \in applied)

(* plan: the two list comprehensions of _on_restore. *)
PlanRestorable(applied) ==
    SelectSeq(TWEAKS, LAMBDA t : t.id \in applied /\ t.restore_cmd # "None")

PlanIrreversible(applied) ==
    SelectSeq(TWEAKS, LAMBDA t : t.id \in applied /\ t.restore_cmd = "None")

(* _on_restore, first comprehension. *)
_on_restore_restorable ==
    /\ app = "running"
    /\ mainpc = "idle"
    /\ buttons = "normal"
    /\ HasFreeThread
    /\ restorable' = PlanRestorable(_applied)
    /\ seen' = << _applied >>
    /\ mainpc' = "irreversible"
    /\ UNCHANGED << app, file, write_ok, boot, _admin, _applied, _lock, _busy, buttons,
                    afterQ, irreversible, thr >>

(* _on_restore, second comprehension and the emptiness test: with nothing  *)
(* to restore it shows a message and returns, else it opens the dialog.    *)
_on_restore_irreversible ==
    /\ mainpc = "irreversible"
    /\ LET irr == PlanIrreversible(_applied) IN
         IF restorable = << >> /\ irr = << >>
         THEN /\ mainpc' = "idle"
              /\ restorable' = << >>
              /\ irreversible' = << >>
              /\ seen' = << >>
         ELSE /\ mainpc' = "askyesno"
              /\ irreversible' = irr
              /\ restorable' = restorable
              /\ seen' = Append(seen, _applied)
    /\ UNCHANGED << app, file, write_ok, boot, _admin, _applied, _lock, _busy, buttons,
                    afterQ, thr >>

(* _on_restore, the answer to askyesno. *)
_on_restore_answer ==
    /\ mainpc = "askyesno"
    /\ \E yes \in BOOLEAN :
         IF yes THEN StartThread("_restore_worker", restorable)
                ELSE thr' = thr
    /\ mainpc' = "idle"
    /\ restorable' = << >>
    /\ irreversible' = << >>
    /\ seen' = << >>
    /\ UNCHANGED << app, file, write_ok, boot, _admin, _applied, _lock, _busy, buttons,
                    afterQ >>


(***************************************************************************)
(* Worker threads.                                                         *)
(***************************************************************************)
OutcomeKinds == { "Applied", "Restored", "SkippedPrivilege", "Failed" }

(* Mutant of LockFree: the thread enters without taking the lock. *)
LockFree_NoLock == TRUE

(* The lock is free for a thread that wants it. *)
LockFree == _lock = 0

(* with self._lock: entry.  The thread queues _set_busy(True) and starts   *)
(* with empty result lists.  pre remembers self._applied at this point.    *)
Acquire(w) ==
    /\ thr[w].pc = "waiting"
    /\ LockFree
    /\ _lock' = w
    /\ afterQ' = Append(afterQ, TRUE)
    /\ thr' = [thr EXCEPT ![w].pc = "loop", ![w].pre = _applied]
    /\ UNCHANGED << app, file, write_ok, boot, _admin, _applied, _busy, buttons, mainpc,
                    restorable, irreversible, seen >>

(* Mutant of NeedsAdmin: a tweak already marked applied is passed over    *)
(* as well.                                                                *)
NeedsAdmin_SkipApplied(tweak, admin) ==
    (tweak.admin /\ ~admin) \/ tweak.id \in _applied

(* Mutant of NeedsAdmin: the gate is missing. *)
NeedsAdmin_NoGate(tweak, admin) == FALSE

(* The privilege gate of both loops: tweak["admin"] and not self._admin. *)
NeedsAdmin(tweak, admin) == tweak.admin /\ ~admin

(* for tweak in ...: the loop is over once every element has been taken,  *)
(* and it moves on to the next element whatever run_powershell returned.   *)
(* Mutant of loop_done: the loop stops one element early. *)
loop_done_OneEarly(i, n) == i >= n

loop_done(i, n) == i > n

(* Mutant of loop_next: a failed command ends the loop. *)
loop_next_Abort(i, n, ok) == IF ok THEN i + 1 ELSE n + 1

loop_next(i, n, ok) == i + 1

(* Loop body up to the executor call: either the tweak is skipped          *)
(* (continue) or run_powershell is entered with its command.               *)
LoopHead(w) ==
    /\ thr[w].pc = "loop"
    /\ ~loop_done(thr[w].i, Len(thr[w].args))
    /\ LET t     == thr[w]
           tweak == t.args[t.i]
       IN IF NeedsAdmin(tweak, _admin)
          THEN thr' = [thr EXCEPT
                 ![w].skipped_admin =
                     IF t.target = "_apply_worker"
                     THEN Append(t.skipped_admin, tweak.id)
                     ELSE t.skipped_admin,
                 ![w].outcomes =
                     Append(t.outcomes,
                            [id |-> tweak.id, kind |-> "SkippedPrivilege"]),
                 ![w].i = loop_next(t.i, Len(t.args), TRUE)]
          ELSE thr' = [thr EXCEPT
                 ![w].pc = "run_powershell",
                 ![w].calls =
                     Append(t.calls,
                            [id |-> tweak.id,
                             cmd |-> IF t.target = "_apply_worker"
                                     THEN "apply_cmd" ELSE "restore_cmd"])]
    /\ UNCHANGED << app, file, write_ok, boot, _admin, _applied, _lock, _busy, buttons,
                    afterQ, mainpc, restorable, irreversible, seen >>

(* Mutant of collect: the id is appended whatever the command returned. *)
collect_Always(list, tid, ok) == Append(list, tid)

(* if ok: newly_applied.append(tid), and restored.append(tweak["id"]) *)
collect(list, tid, ok) == IF ok THEN Append(list, tid) ELSE list

(* run_powershell returns; the rest of the loop body records the result. *)
LoopTail(w) ==
    /\ thr[w].pc = "run_powershell"
    /\ \E proc \in ProcessOutcomes :
         LET t     == thr[w]
             tweak == t.args[t.i]
             ok    == run_powershell(proc)
         IN thr' = [thr EXCEPT
              ![w].pc = "loop",
              ![w].i = loop_next(t.i, Len(t.args), ok),
              ![w].newly_applied =
                  IF t.target = "_apply_worker"
                  THEN collect(t.newly_applied, tweak.id, ok)
                  ELSE t.newly_applied,
              ![w].restored =
                  IF t.target = "_restore_worker"
                  THEN collect(t.restored, tweak.id, ok)
                  ELSE t.restored,
              ![w].outcomes =
                  Append(t.outcomes,
                         [id |-> tweak.id,
                          kind |-> IF ~ok THEN "Failed"
                                   ELSE IF t.target = "_apply_worker"
                                        THEN "Applied" ELSE "Restored"])]
    /\ UNCHANGED << app, file, write_ok, boot, _admin, _applied, _lock, _busy, buttons,
                    afterQ, mainpc, restorable, irreversible, seen >>

(* Mutant of applied_update: the set is replaced, not extended. *)
applied_update_Replace(applied, newly_applied) == Range(newly_applied)

(* self._applied.update(newly_applied) *)
applied_update(applied, newly_applied) == applied \cup Range(newly_applied)

(* Mutant of applied_discard: ids the registry does not have go as well. *)
applied_discard_Stale(applied, tid) == (applied \ {tid}) \cap RegistryIds

(* Mutant of applied_discard: the id is not removed. *)
applied_discard_Keep(applied, tid) == applied

(* self._applied.discard(tid) *)
applied_discard(applied, tid) == applied \ {tid}

(* _apply_worker after the loop: the update of self._applied. *)
Update(w) ==
    /\ thr[w].pc = "loop"
    /\ thr[w].target = "_apply_worker"
    /\ loop_done(thr[w].i, Len(thr[w].args))
    /\ _applied' = applied_update(_applied, thr[w].newly_applied)
    /\ thr' = [thr EXCEPT ![w].pc = "save"]
    /\ UNCHANGED << app, file, write_ok, boot, _admin, _lock, _busy, buttons, afterQ,
                    mainpc, restorable, irreversible, seen >>

(* _restore_worker after the loop:                                         *)
(*   for tid in restored: self._applied.discard(tid)                       *)
(* one discard per step; with nothing restored the loop body never runs.   *)
Discard(w) ==
    /\ thr[w].pc = "loop"
    /\ thr[w].target = "_restore_worker"
    /\ loop_done(thr[w].i, Len(thr[w].args))
    /\ LET t == thr[w] IN
         IF t.j <= Len(t.restored)
         THEN /\ _applied' = applied_discard(_applied, t.restored[t.j])
              /\ thr' = [thr EXCEPT
                   ![w].j = t.j + 1,
                   ![w].pc = IF t.j = Len(t.restored) THEN "save" ELSE "loop"]
         ELSE /\ _applied' = _applied
              /\ thr' = [thr EXCEPT ![w].pc = "save"]
    /\ UNCHANGED << app, file, write_ok, boot, _admin, _lock, _busy, buttons, afterQ,
                    mainpc, restorable, irreversible, seen >>

(* save_applied_tweaks(self._applied) *)
Save(w) ==
    /\ thr[w].pc = "save"
    /\ \E os \in WriteOutcomes :
         /\ file' = save_file(file, _applied, os)
         /\ write_ok' = (os = "written")
         /\ thr' = [thr EXCEPT ![w].pc = "summary",
                               ![w].saves = thr[w].saves + 1,
                               ![w].os = os,
                               ![w].ret = save_return(os)]
    /\ UNCHANGED << app, boot, _admin, _applied, _lock, _busy, buttons, afterQ,
                    mainpc, restorable, irreversible, seen >>

(* Mutant of lock_released: the lock is still held after the batch. *)
lock_released_Held(w) == w

(* The value of self._lock once the with block is left. *)
lock_released(w) == 0

(* Summary line, self.after(0, self._set_busy, False), end of the with     *)
(* block; the thread returns and its locals are gone.                      *)
Finish(w) ==
    /\ thr[w].pc = "summary"
    /\ afterQ' = Append(afterQ, FALSE)
    /\ _lock' = lock_released(w)
    /\ thr' = [thr EXCEPT ![w] = NoThread("done")]
    /\ UNCHANGED << app, file, write_ok, boot, _admin, _applied, _busy, buttons, mainpc,
                    restorable, irreversible, seen >>

Next ==
    \/ Start
    \/ RunAfter
    \/ _on_apply
    \/ _on_restore_restorable
    \/ _on_restore_irreversible
    \/ _on_restore_answer
    \/ \E w \in Threads : Acquire(w)
    \/ \E w \in Threads : LoopHead(w)
    \/ \E w \in Threads : LoopTail(w)
    \/ \E w \in Threads : Update(w)
    \/ \E w \in Threads : Discard(w)
    \/ \E w \in Threads : Save(w)
    \/ \E w \in Threads : Finish(w)

Spec == Init /\ [][Next]_vars

(* Worker threads that can run are scheduled and every run_powershell      *)
(* call returns; nothing is assumed of the user, so the main-thread steps  *)
(* are not fair, nor is the order in which waiting threads get the lock.   *)
WorkerStep(w) ==
    \/ Acquire(w) \/ LoopHead(w) \/ LoopTail(w)
    \/ Update(w) \/ Discard(w) \/ Save(w) \/ Finish(w)

(* The state after ArcBoosterApp() has loaded the record that has every    *)
(* id without Administrator rights: both kinds of batch have work, and     *)
(* the privilege gate and the executor are both on their way.              *)
LiveInit ==
    /\ app = "running"
    /\ file = FileOf("record", sorted(AllIds))
    /\ write_ok = TRUE
    /\ boot = load_applied_tweaks(file)
    /\ _admin = FALSE
    /\ _applied = boot.value
    /\ _lock = 0
    /\ _busy = FALSE
    /\ buttons = "normal"
    /\ afterQ = << >>
    /\ mainpc = "idle"
    /\ restorable = << >>
    /\ irreversible = << >>
    /\ seen = << >>
    /\ thr = [w \in Threads |-> NoThread("unstarted")]

LiveNext ==
    \/ RunAfter
    \/ _on_apply
    \/ _on_restore_restorable
    \/ _on_restore_irreversible
    \/ _on_restore_answer
    \/ \E w \in Threads : Acquire(w)
    \/ \E w \in Threads : LoopHead(w)
    \/ \E w \in Threads : LoopTail(w)
    \/ \E w \in Threads : Update(w)
    \/ \E w \in Threads : Discard(w)
    \/ \E w \in Threads : Save(w)
    \/ \E w \in Threads : Finish(w)

LiveSpec ==
    LiveInit /\ [][LiveNext]_vars /\ WF_vars(\E w \in Threads : WorkerStep(w))


(***************************************************************************)
(* Properties.                                                             *)
(***************************************************************************)
ApplyThreads   == { w \in Threads : thr[w].target = "_apply_worker" }
RestoreThreads == { w \in Threads : thr[w].target = "_restore_worker" }

ArgIds(w) == { thr[w].args[k].id : k \in DOMAIN thr[w].args }

OutcomeIds(w, kind) ==
    { thr[w].outcomes[k].id :
        k \in { n \in DOMAIN thr[w].outcomes : thr[w].outcomes[n].kind = kind } }

HasOutcome(w, kind) ==
    \E k \in DOMAIN thr[w].outcomes : thr[w].outcomes[k].kind = kind

(* The persisted Applied-State Set is s: a load of the file returns s. *)
PersistedIs(s) ==
    LET r == load_applied_tweaks(file) IN r.raised = "None" /\ r.value = s

(* The tweak needs Administrator and the process does not have it. *)
Gated(tweak) == tweak.admin /\ ~_admin

(* C1 as stated: once an apply batch has persisted, the persisted set is   *)
(* the set before the batch united with the ids whose outcome is Applied.  *)
C1_Original ==
    \A w \in ApplyThreads :
        thr[w].pc = "summary" =>
            PersistedIs(thr[w].pre \cup OutcomeIds(w, "Applied"))

(* C1 amended: once an apply batch has persisted, self._applied is the set *)
(* before the batch united with exactly the ids whose outcome is Applied,  *)
(* ids outside the requested list are as before, and the persisted set     *)
(* equals it when the write went through.                                  *)
C1_ApplyPersists ==
    \A w \in ApplyThreads :
        thr[w].pc = "summary" =>
            /\ _applied = thr[w].pre \cup OutcomeIds(w, "Applied")
            /\ _applied \ ArgIds(w) = thr[w].pre \ ArgIds(w)
            /\ thr[w].os = "written" => PersistedIs(_applied)

C1_Witness ==
    \E w \in ApplyThreads :
        /\ thr[w].pc = "summary"
        /\ thr[w].os = "written"
        /\ StaleId \in thr[w].pre
        /\ HasOutcome(w, "Applied")
        /\ HasOutcome(w, "Failed")
        /\ HasOutcome(w, "SkippedPrivilege")
        /\ ~(OutcomeIds(w, "Applied") \subseteq thr[w].pre)

(* C2 as stated: once a restore batch has persisted, the persisted set is  *)
(* the set before the batch minus the ids whose outcome is Restored.       *)
C2_Original ==
    \A w \in RestoreThreads :
        thr[w].pc = "summary" =>
            PersistedIs(thr[w].pre \ OutcomeIds(w, "Restored"))

(* C2 amended: once a restore batch has persisted, self._applied is the    *)
(* set before the batch minus exactly the ids whose outcome is Restored,   *)
(* and the persisted set equals it when the write went through.            *)
C2_RestorePersists ==
    \A w \in RestoreThreads :
        thr[w].pc = "summary" =>
            /\ _applied = thr[w].pre \ OutcomeIds(w, "Restored")
            /\ thr[w].os = "written" => PersistedIs(_applied)

C2_Witness ==
    \E w \in RestoreThreads :
        /\ thr[w].pc = "summary"
        /\ thr[w].os = "written"
        /\ HasOutcome(w, "Restored")
        /\ HasOutcome(w, "SkippedPrivilege")
        /\ OutcomeIds(w, "Restored") \subseteq thr[w].pre
        /\ _applied # {}

(* C3: in an apply batch a tweak that needs Administrator, processed       *)
(* without it, gets the SkippedPrivilege outcome, run_powershell is never  *)
(* called for it, and its membership in self._applied is as before.        *)
C3_PrivilegeGate ==
    \A w \in ApplyThreads :
        LET t == thr[w] IN
        /\ \A k \in DOMAIN t.outcomes :
             Gated(t.args[k]) =>
                 t.outcomes[k] = [id |-> t.args[k].id, kind |-> "SkippedPrivilege"]
        /\ \A c \in DOMAIN t.calls :
             \A k \in DOMAIN t.args :
                 t.args[k].id = t.calls[c].id => ~Gated(t.args[k])
        /\ t.pc \in {"save", "summary"} =>
             \A k \in DOMAIN t.args :
                 Gated(t.args[k]) =>
                     (t.args[k].id \in _applied <=> t.args[k].id \in t.pre)

C3_Witness ==
    \E w \in ApplyThreads :
        /\ thr[w].pc = "summary"
        /\ HasOutcome(w, "SkippedPrivilege")
        /\ HasOutcome(w, "Applied")
        /\ OutcomeIds(w, "SkippedPrivilege") \cap _applied = {}

(* C4: an apply batch yields one outcome record per requested tweak, in    *)
(* order, each Applied, SkippedPrivilege or Failed; the loop takes the     *)
(* next tweak after every outcome, and run_powershell has been called for  *)
(* exactly the tweaks that are not gated, a failed one's successors too.   *)
C4_BestEffort ==
    \A w \in ApplyThreads :
        LET t == thr[w] IN
        /\ t.pc \in {"loop", "run_powershell"} => Len(t.outcomes) = t.i - 1
        /\ t.pc \in {"save", "summary"} =>
             /\ Len(t.outcomes) = Len(t.args)
             /\ \A k \in DOMAIN t.args :
                  /\ t.outcomes[k].id = t.args[k].id
                  /\ t.outcomes[k].kind \in {"Applied", "SkippedPrivilege", "Failed"}
             /\ { t.calls[c].id : c \in DOMAIN t.calls }
                  = { t.args[k].id : k \in { n \in DOMAIN t.args : ~Gated(t.args[n]) } }

C4_Witness ==
    \E w \in ApplyThreads :
        /\ thr[w].pc = "summary"
        /\ Len(thr[w].args) = 3
        /\ thr[w].outcomes[1].kind = "Failed"
        /\ thr[w].outcomes[2].kind = "Failed"
        /\ thr[w].outcomes[3].kind = "Applied"
        /\ Len(thr[w].calls) = 3

(* C5: a thread that is between the start of its batch and the release of  *)
(* the lock holds the lock, so at most one batch is in flight; any other   *)
(* started thread is waiting or has returned.                              *)
InLock == {"loop", "run_powershell", "save", "summary"}

C5_OneBatch ==
    /\ \A w \in Threads : thr[w].pc \in InLock => _lock = w
    /\ Cardinality({ w \in Threads : thr[w].pc \in InLock }) <= 1

C5_Witness ==
    \E w, v \in Threads :
        /\ thr[w].pc = "run_powershell"
        /\ thr[w].target = "_apply_worker"
        /\ thr[v].pc = "waiting"
        /\ thr[v].target = "_restore_worker"


(* C6 as stated: while a batch is between its start and the end of its     *)
(* persist step, no step of the main thread reads self._applied (the two   *)
(* comprehensions of _on_restore are its only reads).                      *)
InFlight == \E w \in Threads : thr[w].pc \in {"loop", "run_powershell", "save"}

MainReadsApplied ==
    \/ mainpc = "idle" /\ mainpc' = "irreversible"
    \/ mainpc = "irreversible" /\ mainpc' # "irreversible"

C6_Original == [][MainReadsApplied => ~InFlight]_vars

(* C7: the lists _on_restore builds are made of registry tweaks in         *)
(* declaration order, restorable holds exactly the tweaks whose id is in   *)
(* the applied set and that have a restore_cmd, irreversible exactly those *)
(* in it that have none, the two are disjoint, and for one applied set     *)
(* their ids together are the applied set cut to the registry ids, so a    *)
(* stale id is in neither.                                                 *)
Ids(list) == { list[k].id : k \in DOMAIN list }

Pos(tweak) == CHOOSE k \in DOMAIN TWEAKS : TWEAKS[k] = tweak

InRegistryOrder(list) ==
    /\ \A k \in DOMAIN list : list[k] \in Range(TWEAKS)
    /\ \A a, b \in DOMAIN list : a < b => Pos(list[a]) < Pos(list[b])

Reversible   == { TWEAKS[k].id : k \in { n \in DOMAIN TWEAKS : TWEAKS[n].restore_cmd # "None" } }
OneWay       == { TWEAKS[k].id : k \in { n \in DOMAIN TWEAKS : TWEAKS[n].restore_cmd = "None" } }

C7_Plan ==
    mainpc = "askyesno" =>
        /\ InRegistryOrder(restorable)
        /\ InRegistryOrder(irreversible)
        /\ Ids(restorable) = seen[1] \cap Reversible
        /\ Ids(irreversible) = seen[2] \cap OneWay
        /\ Ids(restorable) \cap Ids(irreversible) = {}
        /\ seen[1] = seen[2] =>
             Ids(restorable) \cup Ids(irreversible) = seen[1] \cap RegistryIds

C7_Witness ==
    /\ mainpc = "askyesno"
    /\ seen[1] = AllIds
    /\ seen[2] = AllIds
    /\ Len(restorable) = 2
    /\ Len(irreversible) = 1
    /\ StaleId \notin Ids(restorable) \cup Ids(irreversible)

(* C8: a batch calls save_applied_tweaks exactly once, after an outcome    *)
(* has been recorded for every tweak of its list, and the file is written  *)
(* by no other step.                                                       *)
SaveStep(w) ==
    /\ thr[w].pc = "save"
    /\ thr'[w].pc = "summary"
    /\ Len(thr[w].outcomes) = Len(thr[w].args)
    /\ thr'[w].saves = 1
    /\ \A v \in Threads \ {w} : thr'[v] = thr[v]

C8_SinglePersist ==
    /\ [](\A w \in Threads :
            /\ thr[w].pc \in {"waiting", "loop", "run_powershell", "save"}
                 => thr[w].saves = 0
            /\ thr[w].pc = "summary"
                 => thr[w].saves = 1 /\ Len(thr[w].outcomes) = Len(thr[w].args))
    /\ [][(file' # file \/ \E w \in Threads : thr'[w].saves > thr[w].saves)
             => \E w \in Threads : SaveStep(w)]_vars

C8_Witness ==
    \E w, v \in Threads :
        /\ thr[w].pc = "summary"
        /\ thr[w].saves = 1
        /\ thr[w].os = "written"
        /\ Len(thr[w].args) = 3
        /\ Len(thr[w].calls) >= 2
        /\ thr[v].pc = "done"

BatchResult(w) ==
    IF thr[w].target = "_apply_worker"
    THEN thr[w].pre \cup OutcomeIds(w, "Applied")
    ELSE thr[w].pre \ OutcomeIds(w, "Restored")

C10_Original ==
    \A w \in Threads :
        (thr[w].pc = "summary" /\ thr[w].os # "written") =>
            /\ thr[w].ret # "None" \/ HasOutcome(w, "PersistWarning")
            /\ _applied = BatchResult(w)


(* C11: a load right after a save that went through returns the set that   *)
(* was saved, and saving that set again leaves a record with the same ids. *)
C11_SaveLoad ==
    \A w \in Threads :
        (thr[w].pc = "summary" /\ thr[w].os = "written") =>
            /\ load_applied_tweaks(file) = [raised |-> "None", value |-> _applied]
            /\ load_applied_tweaks(save_file(file, _applied, "written")).value
                 = load_applied_tweaks(file).value
            /\ Range(file.applied) = _applied
            /\ Len(file.applied) = Cardinality(_applied)

C11_Witness ==
    \E w \in Threads :
        /\ thr[w].pc = "summary"
        /\ thr[w].os = "written"
        /\ StaleId \in _applied
        /\ Cardinality(_applied) = 3
        /\ load_applied_tweaks(file).value = _applied


(* C12: an id enters self._applied only in the update of an apply batch    *)
(* that recorded Applied for it, and leaves it only in a discard of a      *)
(* restore batch that recorded Restored for it; an id whose outcome is     *)
(* SkippedPrivilege or Failed is in the set after the batch exactly when   *)
(* it was in it before.                                                    *)
Enters(id) == id \notin _applied /\ id \in _applied'
Leaves(id) == id \in _applied /\ id \notin _applied'

C12_Membership ==
    /\ [][app = "running" =>
            \A id \in AllIds :
               /\ Enters(id) =>
                    \E w \in ApplyThreads :
                        /\ _lock = w
                        /\ thr[w].pc = "loop" /\ thr'[w].pc = "save"
                        /\ id \in OutcomeIds(w, "Applied")
               /\ Leaves(id) =>
                    \E w \in RestoreThreads :
                        /\ _lock = w
                        /\ thr[w].pc = "loop"
                        /\ id \in OutcomeIds(w, "Restored")]_vars
    /\ [](\A w \in Threads :
            thr[w].pc \in {"save", "summary"} =>
                \A id \in OutcomeIds(w, "SkippedPrivilege") \cup OutcomeIds(w, "Failed") :
                    id \in _applied <=> id \in thr[w].pre)

C12_Witness ==
    \E w \in ApplyThreads, v \in Threads :
        /\ thr[v].pc = "done"
        /\ thr[w].pc = "summary"
        /\ HasOutcome(w, "Applied")
        /\ "game_mode_enable" \in OutcomeIds(w, "Failed") \ _applied
        /\ "power_plan_high" \in OutcomeIds(w, "SkippedPrivilege") \cap _applied


(* C13: a restore batch never has a tweak without restore_cmd in its list  *)
(* and never calls run_powershell for one, and no step of a running        *)
(* process takes the id of such a tweak out of self._applied.              *)
C13_OneWayStays ==
    /\ [](\A w \in RestoreThreads :
            /\ \A k \in DOMAIN thr[w].args : thr[w].args[k].restore_cmd # "None"
            /\ \A c \in DOMAIN thr[w].calls :
                 /\ thr[w].calls[c].cmd = "restore_cmd"
                 /\ thr[w].calls[c].id \notin OneWay)
    /\ [][app = "running" =>
            \A id \in OneWay : id \in _applied => id \in _applied']_vars

C13_Witness ==
    \E w \in RestoreThreads :
        /\ thr[w].pc = "summary"
        /\ HasOutcome(w, "Restored")
        /\ Len(thr[w].calls) = 2
        /\ OneWay \subseteq thr[w].pre
        /\ OneWay \subseteq _applied
        /\ \E v \in Threads : thr[v].pc = "done"


(* C14: a thread that has been started gets the lock, records an outcome   *)
(* for every tweak of its list, calls save_applied_tweaks once, and        *)
(* returns with the lock no longer its own.                                *)
Persisted(w) ==
    /\ thr[w].pc = "summary"
    /\ thr[w].saves = 1
    /\ Len(thr[w].outcomes) = Len(thr[w].args)

C14_BatchCompletes ==
    /\ \A w \in Threads :
          (thr[w].pc = "waiting") ~> (thr[w].pc = "done" /\ _lock # w)
    /\ [][\A w \in Threads :
             (thr[w].pc # "done" /\ thr'[w].pc = "done") => Persisted(w)]_vars

C14_Witness ==
    \E w, v \in Threads :
        /\ thr[w].pc = "run_powershell"
        /\ Len(thr[w].args) = 3
        /\ HasOutcome(w, "Failed")
        /\ thr[v].pc = "waiting"


(* C15: at most one thread is inside run_powershell, and the calls of a    *)
(* batch are, in order, the tweaks of its list that are not gated.         *)
Permitted(w) == SelectSeq(thr[w].args, LAMBDA t : ~Gated(t))

C15_Sequential ==
    /\ Cardinality({ w \in Threads : thr[w].pc = "run_powershell" }) <= 1
    /\ \A w \in Threads :
         /\ Len(thr[w].calls) <= Len(Permitted(w))
         /\ \A c \in DOMAIN thr[w].calls : thr[w].calls[c].id = Permitted(w)[c].id
         /\ thr[w].pc = "run_powershell" =>
              thr[w].calls[Len(thr[w].calls)].id = thr[w].args[thr[w].i].id
         /\ thr[w].pc \in {"save", "summary"} =>
              Len(thr[w].calls) = Len(Permitted(w))

C15_Witness ==
    \E w, v \in Threads :
        /\ thr[w].pc = "run_powershell"
        /\ Len(thr[w].calls) = 3
        /\ thr[w].calls[1].id = "power_plan_high"
        /\ thr[w].calls[3].id = "clear_shader_cache"
        /\ thr[v].pc = "waiting"


(* C16: an apply batch calls run_powershell with the apply command for a   *)
(* tweak that is not gated even when its id was in self._applied before    *)
(* the batch, and when every id it applied was already in the set the set  *)
(* after the batch is the set before it.                                   *)
C16_Reapply ==
    \A w \in ApplyThreads :
        LET t == thr[w] IN
        /\ \A k \in DOMAIN t.outcomes :
             (t.args[k].id \in t.pre /\ ~Gated(t.args[k])) =>
                 /\ t.outcomes[k].kind \in {"Applied", "Failed"}
                 /\ \E c \in DOMAIN t.calls :
                      t.calls[c] = [id |-> t.args[k].id, cmd |-> "apply_cmd"]
        /\ (t.pc = "summary" /\ OutcomeIds(w, "Applied") \subseteq t.pre) =>
             _applied = t.pre

C16_Witness ==
    \E w \in ApplyThreads :
        /\ thr[w].pc = "summary"
        /\ "game_mode_enable" \in thr[w].pre
        /\ "game_mode_enable" \in OutcomeIds(w, "Applied")
        /\ "clear_shader_cache" \in OutcomeIds(w, "Applied")
        /\ _applied = thr[w].pre


(* C17 as stated: in a restore batch a tweak that needs Administrator,     *)
(* processed without it, gets the SkippedPrivilege outcome, run_powershell *)
(* is not called for it, and once the batch has persisted its id is in     *)
(* self._applied and in the persisted set.                                 *)
C17_Original ==
    \A w \in RestoreThreads :
        LET t == thr[w] IN
        /\ \A k \in DOMAIN t.outcomes :
             Gated(t.args[k]) =>
                 t.outcomes[k] = [id |-> t.args[k].id, kind |-> "SkippedPrivilege"]
        /\ \A c \in DOMAIN t.calls :
             \A k \in DOMAIN t.args :
                 t.args[k].id = t.calls[c].id => ~Gated(t.args[k])
        /\ t.pc = "summary" =>
             \A k \in DOMAIN t.args :
                 Gated(t.args[k]) =>
                     /\ t.args[k].id \in _applied
                     /\ t.args[k].id \in load_applied_tweaks(file).value


(* C18 as stated: whenever a restore batch calls run_powershell with a     *)
(* tweak's restore_cmd, that tweak's id is in self._applied at that        *)
(* moment, also when two restore requests were planned before the first    *)
(* of their batches started.                                               *)
C18_Original ==
    \A w \in RestoreThreads :
        thr[w].pc = "run_powershell" =>
            thr[w].args[thr[w].i].id \in _applied


(* C19 as stated: whenever no batch holds the lock, load_applied_tweaks    *)
(* of BACKUP_FILE gives self._applied, so a process started now would      *)
(* begin with the set this one has; stated for every reachable state,      *)
(* also after a write that failed.                                         *)
C19_Original ==
    (app = "running" /\ _lock = 0) => PersistedIs(_applied)

(* C19: whenever no batch holds the lock and no write has failed since     *)
(* the last one that succeeded, load_applied_tweaks of BACKUP_FILE gives   *)
(* self._applied.                                                          *)
C19_SessionResumes ==
    (app = "running" /\ _lock = 0 /\ write_ok) => PersistedIs(_applied)

(* Two batches have completed, the set is no longer the one loaded at      *)
(* startup, and the record holds it.                                       *)
C19_Witness ==
    /\ app = "running" /\ _lock = 0 /\ write_ok
    /\ \A w \in Threads : w <= 2 => thr[w].pc = "done"
    /\ _applied # boot.value
    /\ _applied # {}
    /\ PersistedIs(_applied)


(* The ids loaded at startup that the registry does not have. *)
StaleIds == boot.value \ RegistryIds

(* C20: an id loaded at startup that the registry does not have is never   *)
(* handed to a batch, never run and never removed: it stays in             *)
(* self._applied, every record a batch has written holds it, and           *)
(* self._applied is always within the set loaded at startup united with    *)
(* the registry ids.                                                       *)
C20_StaleKept ==
    app = "running" =>
        /\ StaleIds \subseteq _applied
        /\ file.shape = "record" => StaleIds \subseteq Range(file.applied)
        /\ StaleIds \cap (Ids(restorable) \cup Ids(irreversible)) = {}
        /\ \A w \in Threads :
             /\ StaleIds \cap ArgIds(w) = {}
             /\ \A c \in DOMAIN thr[w].calls : thr[w].calls[c].id \notin StaleIds
        /\ _applied \subseteq boot.value \cup RegistryIds

(* A stale id was loaded, an apply batch and a restore batch have both     *)
(* run, the restore batch removed an id and wrote the record.              *)
C20_Witness ==
    /\ StaleIds # {}
    /\ \E w \in RestoreThreads, v \in Threads :
         /\ thr[v].pc = "done"
         /\ thr[w].pc = "summary"
         /\ thr[w].os = "written"
         /\ HasOutcome(w, "Restored")
         /\ file = FileOf("record", sorted(_applied))
         /\ StaleIds \subseteq Range(file.applied)
         /\ _applied # boot.value

====
